---- MODULE Spec2Model ----
(***************************************************************************)
(* The room session controller of quickstart/src/joinroom.js as a state    *)
(* machine: the module-level selector state (activeParticipant,            *)
(* isActiveParticipantPinned), the DOM the handlers read and write, the     *)
(* listeners they register, and the Session Provider's room as the          *)
(* environment that delivers the events.  One action is one event and the   *)
(* whole run of the handlers registered for it.                             *)
(* The device selection of the selectMedia module (localTracks,             *)
(* applyInputDevice, the modal's listeners) is a second machine on its own  *)
(* variables, run by SpecMedia.                                             *)
(***************************************************************************)
EXTENDS Integers, Sequences, FiniteSets, TLC

\* --------------------------------------------------------------- bounds
\* Number of rooms joinRoom may establish, one after the other, in one page.
MaxSessions == 2
\* Number of remote participants that may join, over all rooms of the page.
MaxJoins == 2
\* Number of selectMedia calls, one after the other, in one page.
MaxCalls == 2
\* Largest number of input devices of one kind enumerateDevices may report.
MaxDevices == 2
\* Number of LocalTracks createLocalTracks may create, over all calls.
MaxTracks == 3
\* Number of createLocalTracks calls, over all selectMedia calls.
MaxRequests == 3

\* ------------------------------------------------------------- universe
NULL == <<>>

\* Identity of the local user and of the remote users that may join.
LocalId == "L"
Remotes == {"R1", "R2"}
Identities == {LocalId} \cup Remotes

\* The publications of each identity: the local participant's one video
\* track (joinroom.js:171); R1 may announce two video tracks; R2 is an
\* audio-only participant.
PubsOf(id) == IF id = "R1" THEN {"v", "w"} ELSE IF id = "R2" THEN {"a"} ELSE {"v"}
AllPubs == {"v", "w", "a"}
Kind(pub) == IF pub = "a" THEN "audio" ELSE "video"


\* A Participant object is <<session, identity>>; a Track object is
\* <<session, identity, publication>>.  Objects of different rooms are
\* different objects even when the identity is the same.
Participant(s, id) == <<s, id>>
IdentityOf(p) == p[2]
Track(s, id, pub) == <<s, id, pub>>
KindOf(track) == Kind(track[3])
\* The tracks of one room, by publisher and publication.
RoomTracks == { tp \in Identities \X AllPubs : tp[2] \in PubsOf(tp[1]) }
TrackKey(track) == <<track[2], track[3]>>

VARIABLES
  activeParticipant,           \* joinroom.js:12
  isActiveParticipantPinned,   \* joinroom.js:16
  windowRoom,                  \* window.room: 0 for null, else the session
  containers,                  \* $participants: identity -> its containers, in document order
  activeVideoSrc,              \* $activeVideo.get(0).srcObject: NULL or the track of the stream
  attachments,                 \* track of the latest room -> number of media elements attached to it
  balance,                     \* track of the latest room -> attachTrack calls minus detachTrack calls
  leaveHandlers,               \* sessions whose onLeave is registered on $leave
  unloadListeners,             \* sessions whose 'beforeunload' listener is registered
  pagehideListeners,           \* sessions whose 'pagehide' listener is registered
  visibilityListeners,         \* sessions whose 'visibilitychange' listener is registered
  disabledLocal,               \* sessions whose LocalVideoTrack is disabled
  platform,                    \* what ./browser and the window report
  sess,                        \* number of rooms established so far
  joins,                       \* number of remote participants that have joined so far
  roomState,                   \* state of the latest connect / room
  wired,                       \* listeners registered on the latest room
  promise,                     \* the promise returned by the latest joinRoom
  participants,                \* remote identity -> "absent" | "connected" | "left"
  pubs,                        \* remote identity -> publication -> "none" | "published" | "subscribed"
  dominantSpeaker,             \* room.dominantSpeaker of the latest room
  teardowns,                   \* runs of the 'disconnected' handler of the latest room
  threw                        \* whether a handler of the last event threw

page == <<activeParticipant, isActiveParticipantPinned, windowRoom, containers,
          activeVideoSrc, attachments, balance, threw>>
listeners == <<leaveHandlers, unloadListeners, pagehideListeners, visibilityListeners>>
provider == <<sess, joins, roomState, wired, promise, participants, pubs, dominantSpeaker, teardowns>>
joinroom == <<page, listeners, provider, disabledLocal, platform>>

\* The state of the selectMedia module and of the modal it drives.
VARIABLES
  localTracks,                 \* selectMedia:5: kind -> 0 for null, else the LocalTrack
  mediaTracks,                 \* the LocalTracks createLocalTracks has created, in order
  requests,                    \* createLocalTracks calls that have not settled yet
  reqCount,                    \* number of createLocalTracks calls so far
  calls,                       \* number of selectMedia calls so far
  mediaKind,                   \* kind argument of the latest selectMedia call
  modal,                       \* where the latest selectMedia call and its modal are
  options,                     \* number of <option>s in $inputDevices
  val,                         \* $inputDevices.val(): 0 when there is no option, else the device
  selectPromise,               \* the promise returned by the latest selectMedia
  selectResult,                \* the device ID it resolved with, 0 before
  unhandled,                   \* rejected promises that no caller holds
  rendered                     \* the LocalTrack last passed to render, 0 before

media == <<localTracks, mediaTracks, requests, reqCount, calls, mediaKind, modal, options,
           val, selectPromise, selectResult, unhandled, rendered>>
vars == <<joinroom, media>>

\* ------------------------------------------------- the page as a value
\* The state the handlers of joinroom.js read and write, as one record, so
\* that a handler is an operator from the state before to the state after.
Cur ==
  [ activeParticipant |-> activeParticipant,
    isActiveParticipantPinned |-> isActiveParticipantPinned,
    windowRoom |-> windowRoom,
    containers |-> containers,
    activeVideoSrc |-> activeVideoSrc,
    attachments |-> attachments,
    balance |-> balance,
    threw |-> FALSE ]

\* What `room` denotes in a handler: the closure's Room, or window.room,
\* which may be null.
RoomOf(s, speaker) ==
  [ isNull |-> (s = 0), dominantSpeaker |-> speaker,
    localParticipant |-> IF s = 0 THEN NULL ELSE Participant(s, LocalId) ]

\* jQuery removeClass('active') / removeClass('pinned') on every matched container.
RemoveClasses(cs) ==
  IF cs = <<>> THEN <<>> ELSE [i \in 1..Len(cs) |-> [cs[i] EXCEPT !.cls = ""]]

\* jQuery addClass('active'), and addClass('pinned') when pinned.
AddClasses(cs, pinned) ==
  IF cs = <<>> THEN <<>> ELSE
  [i \in 1..Len(cs) |-> [cs[i] EXCEPT !.cls = IF pinned THEN "active pinned" ELSE "active"]]

\* setActiveParticipant(participant).  $video.get(0) is undefined when no
\* container of that identity is in $participants, and reading .srcObject of
\* it throws a TypeError after activeParticipant has been assigned.
SetActiveParticipant(st, participant) ==
  LET c1 == IF st.activeParticipant # NULL
              THEN [st.containers EXCEPT ![IdentityOf(st.activeParticipant)] = RemoveClasses(@)]
              ELSE st.containers
      id == IdentityOf(participant)
      c2 == [c1 EXCEPT ![id] = AddClasses(@, st.isActiveParticipantPinned)]
      found == Len(c2[id]) > 0
  IN [st EXCEPT !.activeParticipant = participant,
                !.containers = c2,
                !.activeVideoSrc = IF found THEN c2[id][1].track ELSE @,
                !.threw = ~found]

\* setCurrentActiveParticipant(room).  Destructuring a null room throws.
SetCurrentActiveParticipant(st, room) ==
  IF room.isNull
    THEN [st EXCEPT !.threw = TRUE]
    ELSE SetActiveParticipant(st,
           IF room.dominantSpeaker # NULL THEN room.dominantSpeaker ELSE room.localParticipant)

\* attachAudioTrack(track): track.attach() makes one more <audio> element,
\* appended to $participants.
AttachAudioTrack(st, track) ==
  [st EXCEPT !.attachments[TrackKey(track)] = @ + 1, !.balance[TrackKey(track)] = @ + 1]

\* attachVideoTrack(track, participant): a new container, last among those of
\* the identity, holding the <video> element of track.attach(); its click
\* handler closes over participant.
AttachVideoTrack(st, track, participant) ==
  [st EXCEPT !.containers[IdentityOf(participant)] =
                 Append(@, [participant |-> participant, track |-> track, cls |-> ""]),
             !.attachments[TrackKey(track)] = @ + 1,
             !.balance[TrackKey(track)] = @ + 1]

\* attachTrack(track, participant)
AttachTrack(st, track, participant) ==
  IF KindOf(track) = "audio" THEN AttachAudioTrack(st, track)
  ELSE IF KindOf(track) = "video" THEN AttachVideoTrack(st, track, participant)
  ELSE st

\* A detachTrack that leaves the track's elements and containers in place.
DetachTrack_LeavesElement(st, track, participant) == st

\* detachTrack(track, participant): every element of the track is detached
\* and removed; for video every container of the identity is removed.
DetachTrack(st, track, participant) ==
  LET s1 == [st EXCEPT !.attachments[TrackKey(track)] = 0, !.balance[TrackKey(track)] = @ - 1]
  IN IF KindOf(track) = "video"
       THEN [s1 EXCEPT !.containers[IdentityOf(participant)] = <<>>]
       ELSE s1

\* trackPublished(publication, participant): attaches publication.track when
\* the publication is already subscribed; the 'subscribed' and 'unsubscribed'
\* listeners it registers are the actions Subscribed and Unsubscribed.
TrackPublished(st, state, track, participant) ==
  IF state = "subscribed" THEN AttachTrack(st, track, participant) ELSE st

\* participantConnected(participant): trackPublished for every publication
\* the participant already has, in the order of participant.tracks.
PubOrder == <<"v", "w", "a">>
RECURSIVE ReplayPublications(_, _, _, _, _)
ReplayPublications(st, s, id, pubmap, i) ==
  IF i > Len(PubOrder) THEN st
  ELSE LET pub == PubOrder[i]
           nxt == IF pub \in PubsOf(id)
                    THEN TrackPublished(st, pubmap[pub], Track(s, id, pub), Participant(s, id))
                    ELSE st
       IN ReplayPublications(nxt, s, id, pubmap, i + 1)

ParticipantConnected(st, s, id, pubmap) == ReplayPublications(st, s, id, pubmap, 1)

\* The click listener with the call of line 95 missing: unpinning leaves the
\* active participant where it is.
ClickHandler_NoResolve(st, participant, room) ==
  IF st.activeParticipant = participant /\ st.isActiveParticipantPinned
    THEN [st EXCEPT !.isActiveParticipantPinned = FALSE]
    ELSE SetActiveParticipant([st EXCEPT !.isActiveParticipantPinned = TRUE], participant)

\* The click listener of a container (joinroom.js:91-101).
ClickHandler(st, participant, room) ==
  IF st.activeParticipant = participant /\ st.isActiveParticipantPinned
    THEN SetCurrentActiveParticipant([st EXCEPT !.isActiveParticipantPinned = FALSE], room)
    ELSE SetActiveParticipant([st EXCEPT !.isActiveParticipantPinned = TRUE], participant)

\* The listener with the assignment of line 186 missing: the pin is kept.
ParticipantDisconnectedHandler_KeepsPin(st, participant, room) ==
  IF st.activeParticipant = participant /\ st.isActiveParticipantPinned
    THEN SetCurrentActiveParticipant(st, room)
    ELSE st

\* The 'participantDisconnected' listener (joinroom.js:184-189).
ParticipantDisconnectedHandler(st, participant, room) ==
  IF st.activeParticipant = participant /\ st.isActiveParticipantPinned
    THEN SetCurrentActiveParticipant([st EXCEPT !.isActiveParticipantPinned = FALSE], room)
    ELSE st

\* The 'dominantSpeakerChanged' listener (joinroom.js:196-200).
DominantSpeakerChangedHandler(st, room) ==
  IF ~st.isActiveParticipantPinned THEN SetCurrentActiveParticipant(st, room) ELSE st

\* The 'disconnected' listener (joinroom.js:238-250), up to resolve().
DisconnectedHandler(st, s) ==
  LET s1 == DetachTrack(st, Track(s, LocalId, "v"), Participant(s, LocalId))
  IN [s1 EXCEPT !.activeVideoSrc = NULL, !.windowRoom = 0]

\* Writes a page value back to the variables.
Commit(st) ==
  /\ activeParticipant' = st.activeParticipant
  /\ isActiveParticipantPinned' = st.isActiveParticipantPinned
  /\ windowRoom' = st.windowRoom
  /\ containers' = st.containers
  /\ activeVideoSrc' = st.activeVideoSrc
  /\ attachments' = st.attachments
  /\ balance' = st.balance
  /\ threw' = st.threw

\* ------------------------------------------------------------ the start
\* What ./browser (isMobile, name) and the feature tests of joinroom.js:209,
\* 217 and 223 report: which window listeners a session registers.
\* "desktop": isMobile is false.  "mobileSafari": isMobile, name = 'safari',
\* and the window has onpagehide and the document onvisibilitychange.
HasBeforeUnload(pf) == pf \in {"desktop", "mobileSafari"}
HasPageHide(pf) == pf = "mobileSafari"
HasVisibilityChange(pf) == pf = "mobileSafari"

PubStates == {"none", "published", "subscribed"}
NoPubs == [pub \in AllPubs |-> "none"]

\* The publications a participant may carry when the code first sees it.
PubMaps(id) ==
  { [pub \in AllPubs |-> IF pub \in PubsOf(id) THEN f[pub] ELSE "none"] : f \in [PubsOf(id) -> PubStates] }

\* localTracks of the selectMedia module (lines 5-8) and a modal nobody has
\* opened yet.
Kinds == {"audio", "video"}

InitMedia ==
  /\ localTracks = [k \in Kinds |-> 0]
  /\ mediaTracks = <<>>
  /\ requests = {}
  /\ reqCount = 0
  /\ calls = 0
  /\ mediaKind = "audio"
  /\ modal = "none"
  /\ options = 0
  /\ val = 0
  /\ selectPromise = "none"
  /\ selectResult = 0
  /\ unhandled = 0
  /\ rendered = 0

InitPage ==
  /\ activeParticipant = NULL
  /\ isActiveParticipantPinned = FALSE
  /\ windowRoom = 0
  /\ containers = [id \in Identities |-> <<>>]
  /\ activeVideoSrc = NULL
  /\ attachments = [t \in RoomTracks |-> 0]
  /\ balance = [t \in RoomTracks |-> 0]
  /\ leaveHandlers = {}
  /\ unloadListeners = {}
  /\ pagehideListeners = {}
  /\ visibilityListeners = {}
  /\ disabledLocal = {}
  /\ sess = 0
  /\ joins = 0
  /\ roomState = "none"
  /\ wired = "none"
  /\ promise = "none"
  /\ participants = [id \in Remotes |-> "absent"]
  /\ pubs = [id \in Remotes |-> NoPubs]
  /\ dominantSpeaker = NULL
  /\ teardowns = 0
  /\ threw = FALSE

\* The page in a desktop browser, and in Safari on a mobile device.
Init == InitPage /\ InitMedia /\ platform = "desktop"
InitMobile == InitPage /\ InitMedia /\ platform = "mobileSafari"

\* ------------------------------------------------------------- joinRoom
\* joinRoom(token, connectOptions) is called: connect() is pending.  The
\* caller joins again only after the previous call has settled and its room
\* has ended (joinroom.js:248).
JoinRoom ==
  /\ roomState \in {"none", "failed", "disconnected"}
  /\ sess < MaxSessions
  /\ roomState' = "connecting"
  /\ promise' = "pending"
  /\ threw' = FALSE
  /\ UNCHANGED <<activeParticipant, isActiveParticipantPinned, windowRoom, containers,
                 activeVideoSrc, attachments, balance, listeners,
                 disabledLocal, platform, sess, joins, wired, participants, pubs,
                 dominantSpeaker, teardowns>>
  /\ UNCHANGED media

\* A rejection path that also resets the selector's pinned flag.
ConnectRejected_ResetsSelector ==
  /\ roomState = "connecting"
  /\ roomState' = "failed"
  /\ promise' = "rejected"
  /\ threw' = FALSE
  /\ isActiveParticipantPinned' = FALSE
  /\ UNCHANGED <<activeParticipant, windowRoom, containers,
                 activeVideoSrc, attachments, balance, listeners,
                 disabledLocal, platform, sess, joins, wired, participants, pubs,
                 dominantSpeaker, teardowns>>
  /\ UNCHANGED media

\* connect() rejects: the .then callback never runs and the promise joinRoom
\* returned rejects with the same failure.
ConnectRejected ==
  /\ roomState = "connecting"
  /\ roomState' = "failed"
  /\ promise' = "rejected"
  /\ threw' = FALSE
  /\ UNCHANGED <<activeParticipant, isActiveParticipantPinned, windowRoom, containers,
                 activeVideoSrc, attachments, balance, listeners,
                 disabledLocal, platform, sess, joins, wired, participants, pubs,
                 dominantSpeaker, teardowns>>
  /\ UNCHANGED media

\* room.participants.forEach(participantConnected)
RECURSIVE ConnectPresent(_, _, _, _, _)
ConnectPresent(st, s, present, pm, todo) ==
  IF todo = {} THEN st
  ELSE LET id == CHOOSE x \in todo : TRUE
           nxt == IF present[id] = "connected" THEN ParticipantConnected(st, s, id, pm[id]) ELSE st
       IN ConnectPresent(nxt, s, present, pm, todo \ {id})

\* The .then callback of joinRoom (joinroom.js:166-252) up to and including
\* setCurrentActiveParticipant(room) at line 192.  The tracks of the new room
\* are new objects, none attached yet; those of the ended room can no longer
\* be attached or detached and are no longer recorded.
EstablishPage(st, s, present, pm, speaker) ==
  LET s1 == [st EXCEPT !.windowRoom = s,
                       !.attachments = [t \in RoomTracks |-> 0],
                       !.balance = [t \in RoomTracks |-> 0]]
      s2 == AttachVideoTrack(s1, Track(s, LocalId, "v"), Participant(s, LocalId))
      s3 == ConnectPresent(s2, s, present, pm, Remotes)
  IN SetCurrentActiveParticipant(s3, RoomOf(s, speaker))

\* connect() resolves with a Room that holds the participants `present`,
\* their publications `pm` and the dominant speaker `speaker`.  When line 192
\* throws, the callback ends there: the listeners of lines 196-250 are never
\* registered and the promise joinRoom returned rejects.
Establish(present, pm, speaker) ==
  LET s == sess + 1
      st == EstablishPage(Cur, s, present, pm, speaker)
  IN /\ roomState = "connecting"
     /\ roomState' = "connected"
     /\ sess' = s
     /\ joins' = joins + Cardinality({ id \in Remotes : present[id] = "connected" })
     /\ joins' <= MaxJoins
     /\ participants' = present
     /\ pubs' = pm
     /\ dominantSpeaker' = speaker
     /\ teardowns' = 0
     /\ Commit(st)
     /\ IF st.threw
          THEN /\ wired' = "partial"
               /\ promise' = "rejected"
               /\ UNCHANGED listeners
          ELSE /\ wired' = "full"
               /\ promise' = "pending"
               /\ leaveHandlers' = leaveHandlers \cup {s}
               /\ unloadListeners' = IF HasBeforeUnload(platform) THEN unloadListeners \cup {s} ELSE unloadListeners
               /\ pagehideListeners' = IF HasPageHide(platform) THEN pagehideListeners \cup {s} ELSE pagehideListeners
               /\ visibilityListeners' = IF HasVisibilityChange(platform) THEN visibilityListeners \cup {s} ELSE visibilityListeners
     /\ UNCHANGED <<disabledLocal, platform>>

\* The publications of the participants of a new room.
PresentPubMaps(present) ==
  { ("R1" :> a) @@ ("R2" :> b) :
      a \in (IF present["R1"] = "connected" THEN PubMaps("R1") ELSE {NoPubs}),
      b \in (IF present["R2"] = "connected" THEN PubMaps("R2") ELSE {NoPubs}) }

ConnectResolved ==
  /\ roomState = "connecting"
  /\ \E present \in [Remotes -> {"absent", "connected"}] :
      \E pm \in PresentPubMaps(present) :
        \E speaker \in {NULL} \cup { Participant(sess + 1, id) : id \in { r \in Remotes : present[r] = "connected" } } :
          Establish(present, pm, speaker)
  /\ UNCHANGED media

\* ------------------------------------------------- events of a live room
\* The closure's `room` of the latest session, as its handlers see it.
ThisRoom == RoomOf(sess, dominantSpeaker)

\* window.room as a click handler sees it.
WindowRoom == RoomOf(windowRoom, dominantSpeaker)

\* A remote participant joins (each identity at most once per room) and the
\* 'participantConnected' listener of line 180 runs.
ParticipantConnectedEvent(id, pm) ==
  /\ roomState = "connected"
  /\ participants[id] = "absent"
  /\ joins < MaxJoins
  /\ joins' = joins + 1
  /\ participants' = [participants EXCEPT ![id] = "connected"]
  /\ pubs' = [pubs EXCEPT ![id] = pm]
  /\ Commit(ParticipantConnected(Cur, sess, id, pm))
  /\ UNCHANGED <<listeners, disabledLocal, platform, sess, roomState,
                 wired, promise, dominantSpeaker, teardowns>>
  /\ UNCHANGED media

\* A connected participant announces a publication, with or without its
\* track, and the 'trackPublished' listener of line 129 runs.
TrackPublishedEvent(id, pub, state) ==
  /\ roomState = "connected"
  /\ participants[id] = "connected"
  /\ pubs[id][pub] = "none"
  /\ pubs' = [pubs EXCEPT ![id][pub] = state]
  /\ Commit(TrackPublished(Cur, state, Track(sess, id, pub), Participant(sess, id)))
  /\ UNCHANGED <<listeners, disabledLocal, platform, sess, joins, roomState,
                 wired, promise, participants, dominantSpeaker, teardowns>>
  /\ UNCHANGED media

\* The 'subscribed' listener of a publication (line 148).
Subscribed(id, pub) ==
  /\ roomState = "connected"
  /\ participants[id] = "connected"
  /\ pubs[id][pub] = "published"
  /\ pubs' = [pubs EXCEPT ![id][pub] = "subscribed"]
  /\ Commit(AttachTrack(Cur, Track(sess, id, pub), Participant(sess, id)))
  /\ UNCHANGED <<listeners, disabledLocal, platform, sess, joins, roomState,
                 wired, promise, participants, dominantSpeaker, teardowns>>
  /\ UNCHANGED media

\* The 'unsubscribed' listener of a publication (line 154).
Unsubscribed(id, pub) ==
  /\ roomState = "connected"
  /\ participants[id] = "connected"
  /\ pubs[id][pub] = "subscribed"
  /\ pubs' = [pubs EXCEPT ![id][pub] = "published"]
  /\ Commit(DetachTrack(Cur, Track(sess, id, pub), Participant(sess, id)))
  /\ UNCHANGED <<listeners, disabledLocal, platform, sess, joins, roomState,
                 wired, promise, participants, dominantSpeaker, teardowns>>
  /\ UNCHANGED media

\* A remote participant leaves and the 'participantDisconnected' listener of
\* line 184 runs.  room.dominantSpeaker is whatever the provider last
\* reported: the change of dominant speaker is an event of its own.
ParticipantDisconnectedEvent(id) ==
  /\ roomState = "connected"
  /\ participants[id] = "connected"
  /\ participants' = [participants EXCEPT ![id] = "left"]
  /\ pubs' = [pubs EXCEPT ![id] = NoPubs]
  /\ Commit(ParticipantDisconnectedHandler(Cur, Participant(sess, id), ThisRoom))
  /\ UNCHANGED <<listeners, disabledLocal, platform, sess, joins, roomState,
                 wired, promise, dominantSpeaker, teardowns>>
  /\ UNCHANGED media

\* The provider reports dominant speaker d (null, or a connected remote
\* participant) and emits 'dominantSpeakerChanged'; the listener of line 196
\* runs when it was registered.
DominantSpeakerChangedEvent(d) ==
  /\ roomState = "connected"
  /\ dominantSpeaker' = d
  /\ IF wired = "full"
       THEN Commit(DominantSpeakerChangedHandler(Cur, RoomOf(sess, d)))
       ELSE Commit(Cur)
  /\ UNCHANGED <<listeners, disabledLocal, platform, sess, joins, roomState,
                 wired, promise, participants, pubs, teardowns>>
  /\ UNCHANGED media

\* The user clicks the k-th container of an identity.
Click(id, k) ==
  /\ k \in 1..Len(containers[id])
  /\ Commit(ClickHandler(Cur, containers[id][k].participant, WindowRoom))
  /\ UNCHANGED <<listeners, disabledLocal, platform, provider>>
  /\ UNCHANGED media

\* room.disconnect() of session s: it ends the room when that room is the
\* connected one and does nothing on a room that is no longer connected.
AfterDisconnectCalls(ss) ==
  IF sess \in ss /\ roomState = "connected" THEN "disconnecting" ELSE roomState

\* The user clicks "Leave Room": every registered onLeave (line 203)
\* unregisters itself and calls room.disconnect().
LeaveClick ==
  /\ leaveHandlers # {}
  /\ leaveHandlers' = {}
  /\ roomState' = AfterDisconnectCalls(leaveHandlers)
  /\ Commit(Cur)
  /\ UNCHANGED <<unloadListeners, pagehideListeners, visibilityListeners,
                 disabledLocal, platform, sess, joins, wired, promise, participants, pubs,
                 dominantSpeaker, teardowns>>
  /\ UNCHANGED media

\* 'beforeunload' fires: the listeners of line 211 call room.disconnect().
BeforeUnload ==
  /\ unloadListeners # {}
  /\ roomState' = AfterDisconnectCalls(unloadListeners)
  /\ Commit(Cur)
  /\ UNCHANGED <<listeners, disabledLocal, platform, sess, joins, wired,
                 promise, participants, pubs, dominantSpeaker, teardowns>>
  /\ UNCHANGED media

\* 'pagehide' fires: the listeners of line 218 call room.disconnect().
PageHide ==
  /\ pagehideListeners # {}
  /\ roomState' = AfterDisconnectCalls(pagehideListeners)
  /\ Commit(Cur)
  /\ UNCHANGED <<listeners, disabledLocal, platform, sess, joins, wired,
                 promise, participants, pubs, dominantSpeaker, teardowns>>
  /\ UNCHANGED media

\* 'visibilitychange' fires while document.visibilityState is the given
\* value: the listeners of line 224 disable or enable their LocalVideoTrack.
VisibilityChange(visibilityState) ==
  /\ visibilityListeners # {}
  /\ disabledLocal' = IF visibilityState = "hidden"
                        THEN disabledLocal \cup visibilityListeners
                        ELSE disabledLocal \ visibilityListeners
  /\ Commit(Cur)
  /\ UNCHANGED <<listeners, platform, provider>>
  /\ UNCHANGED media

\* The room emits 'disconnected', after room.disconnect() or on the
\* provider's own initiative; the once-listener of line 238 runs when it was
\* registered and resolves the promise.  The ended room delivers no further
\* event, so the provider's record of its participants is dropped; its
\* dominantSpeaker is kept as long as window.room still refers to the room.
DisconnectedEvent ==
  /\ roomState \in {"connected", "disconnecting"}
  /\ roomState' = "disconnected"
  /\ IF wired = "full"
       THEN /\ Commit(DisconnectedHandler(Cur, sess))
            /\ promise' = "resolved"
            /\ teardowns' = teardowns + 1
       ELSE /\ Commit(Cur)
            /\ UNCHANGED <<promise, teardowns>>
  /\ participants' = [id \in Remotes |-> "absent"]
  /\ pubs' = [id \in Remotes |-> NoPubs]
  /\ dominantSpeaker' = IF windowRoom' = 0 THEN NULL ELSE dominantSpeaker
  /\ UNCHANGED <<listeners, disabledLocal, platform, sess, joins, wired>>
  /\ UNCHANGED media

Next ==
  \/ JoinRoom
  \/ ConnectRejected
  \/ ConnectResolved
  \/ \E id \in { r \in Remotes : roomState = "connected" /\ participants[r] = "absent" } :
       \E pm \in PubMaps(id) : ParticipantConnectedEvent(id, pm)
  \/ \E id \in Remotes : \E pub \in PubsOf(id) : \E state \in {"published", "subscribed"} :
       TrackPublishedEvent(id, pub, state)
  \/ \E id \in Remotes : \E pub \in PubsOf(id) : Subscribed(id, pub)
  \/ \E id \in Remotes : \E pub \in PubsOf(id) : Unsubscribed(id, pub)
  \/ \E id \in Remotes : ParticipantDisconnectedEvent(id)
  \/ \E d \in {NULL} \cup { Participant(sess, id) : id \in { r \in Remotes : participants[r] = "connected" } } :
       DominantSpeakerChangedEvent(d)
  \/ \E id \in Identities : \E k \in 1..3 : Click(id, k)
  \/ LeaveClick
  \/ BeforeUnload
  \/ DisconnectedEvent

\* The events of a mobile browser as well.
NextMobile ==
  \/ Next
  \/ PageHide
  \/ \E v \in {"hidden", "visible"} : VisibilityChange(v)

\* ---------------------------------------------------------- selectMedia
\* track.stop() on the LocalTrack t of the list.
StopTrack(tracks, t) ==
  IF t = 0 THEN tracks ELSE [tracks EXCEPT ![t].stopped = TRUE]

\* The .then callback of applyInputDevice (lines 19-29) for a selectMedia
\* call c of kind k, createLocalTracks having resolved with a new LocalTrack:
\* the previous track of the kind is stopped, the new one is stored and
\* rendered.
ApplyInputDeviceThen(lt, tracks, c, k) ==
  LET track == Len(tracks) + 1
      stopped == IF lt[k] # 0 THEN StopTrack(tracks, lt[k]) ELSE tracks
  IN [ localTracks |-> [lt EXCEPT ![k] = track],
       mediaTracks |-> Append(stopped, [call |-> c, kind |-> k, stopped |-> FALSE]),
       rendered |-> track ]

\* onHide (lines 85-96): the track of the kind, if any, is stopped and the
\* entry set to null.
OnHide(lt, tracks, k) ==
  IF lt[k] # 0
    THEN [ localTracks |-> [lt EXCEPT ![k] = 0], mediaTracks |-> StopTrack(tracks, lt[k]) ]
    ELSE [ localTracks |-> lt, mediaTracks |-> tracks ]

\* applyInputDevice(kind, deviceId, render) up to its createLocalTracks call.
NewRequest(deviceId, origin) ==
  [ n |-> reqCount + 1, call |-> calls, kind |-> mediaKind, deviceId |-> deviceId,
    origin |-> origin ]

\* selectMedia(kind, $modal, render) is called: getInputDevices starts.  The
\* page calls it again only after the previous call has settled.
SelectMedia(k) ==
  /\ modal \in {"none", "hidden", "failed"}
  /\ calls < MaxCalls
  /\ calls' = calls + 1
  /\ mediaKind' = k
  /\ modal' = "enumerating"
  /\ selectPromise' = "pending"
  /\ selectResult' = 0
  /\ UNCHANGED <<localTracks, mediaTracks, requests, reqCount, options, val, unhandled, rendered>>
  /\ UNCHANGED joinroom

\* enumerateDevices rejects: selectMedia's promise rejects.
EnumerateRejected ==
  /\ modal = "enumerating"
  /\ modal' = "failed"
  /\ selectPromise' = "rejected"
  /\ UNCHANGED <<localTracks, mediaTracks, requests, reqCount, calls, mediaKind, options, val,
                 selectResult, unhandled, rendered>>
  /\ UNCHANGED joinroom

\* enumerateDevices resolves with n devices of the kind (lines 58-67): the
\* options are written, the first one is selected, and applyInputDevice is
\* called for devices[0]; with no device, devices[0].deviceId throws.
EnumerateResolved(n) ==
  /\ modal = "enumerating"
  /\ options' = n
  /\ val' = IF n > 0 THEN 1 ELSE 0
  /\ IF n = 0
       THEN /\ modal' = "failed"
            /\ selectPromise' = "rejected"
            /\ UNCHANGED <<requests, reqCount>>
       ELSE /\ reqCount < MaxRequests
            /\ requests' = requests \cup {NewRequest(1, "default")}
            /\ reqCount' = reqCount + 1
            /\ modal' = "applying"
            /\ UNCHANGED selectPromise
  /\ UNCHANGED <<localTracks, mediaTracks, calls, mediaKind, selectResult, unhandled, rendered>>
  /\ UNCHANGED joinroom

\* createLocalTracks of request r resolves: the callback of lines 19-29
\* runs; for the default device selectMedia then registers onShow and onHide
\* and shows the modal (lines 68-105).
CreateLocalTracksResolved(r) ==
  /\ r \in requests
  /\ Len(mediaTracks) < MaxTracks
  /\ LET after == ApplyInputDeviceThen(localTracks, mediaTracks, r.call, r.kind)
     IN /\ localTracks' = after.localTracks
        /\ mediaTracks' = after.mediaTracks
        /\ rendered' = after.rendered
  /\ requests' = requests \ {r}
  /\ modal' = IF r.origin = "default" THEN "showing" ELSE modal
  /\ UNCHANGED <<reqCount, calls, mediaKind, options, val, selectPromise, selectResult, unhandled>>
  /\ UNCHANGED joinroom

\* createLocalTracks of request r rejects: the callback of lines 19-29 does
\* not run.  The promise of the default device is the one selectMedia
\* returns (line 67); the promise setDevice returns to the 'change' event
\* (lines 55, 74) is held by nobody.
CreateLocalTracksRejected(r) ==
  /\ r \in requests
  /\ requests' = requests \ {r}
  /\ IF r.origin = "default"
       THEN /\ modal' = "failed"
            /\ selectPromise' = "rejected"
            /\ UNCHANGED unhandled
       ELSE /\ unhandled' = unhandled + 1
            /\ UNCHANGED <<modal, selectPromise>>
  /\ UNCHANGED <<localTracks, mediaTracks, reqCount, calls, mediaKind, options, val,
                 selectResult, rendered>>
  /\ UNCHANGED joinroom

\* 'shown.bs.modal' (lines 70-82): onShow unregisters itself and registers
\* setDevice for 'change' and onApply for the click on "Apply".
Shown ==
  /\ modal = "showing"
  /\ modal' = "shown"
  /\ UNCHANGED <<localTracks, mediaTracks, requests, reqCount, calls, mediaKind, options, val,
                 selectPromise, selectResult, unhandled, rendered>>
  /\ UNCHANGED joinroom

\* The user selects another device: setDevice calls applyInputDevice with
\* the new value of the <select> (lines 55, 74).
Change(deviceId) ==
  /\ modal = "shown"
  /\ deviceId \in 1..options
  /\ deviceId # val
  /\ reqCount < MaxRequests
  /\ val' = deviceId
  /\ requests' = requests \cup {NewRequest(deviceId, "change")}
  /\ reqCount' = reqCount + 1
  /\ UNCHANGED <<localTracks, mediaTracks, calls, mediaKind, modal, options, selectPromise,
                 selectResult, unhandled, rendered>>
  /\ UNCHANGED joinroom

\* The user clicks "Apply" (lines 77-81): onApply unregisters setDevice and
\* itself and hides the modal.
ApplyClick ==
  /\ modal = "shown"
  /\ modal' = "hiding"
  /\ UNCHANGED <<localTracks, mediaTracks, requests, reqCount, calls, mediaKind, options, val,
                 selectPromise, selectResult, unhandled, rendered>>
  /\ UNCHANGED joinroom

\* 'hidden.bs.modal' (lines 85-96): onHide unregisters itself, stops and
\* clears the track of the kind and resolves with the selected device ID.
Hidden ==
  /\ modal = "hiding"
  /\ modal' = "hidden"
  /\ LET after == OnHide(localTracks, mediaTracks, mediaKind)
     IN /\ localTracks' = after.localTracks
        /\ mediaTracks' = after.mediaTracks
  /\ selectPromise' = "resolved"
  /\ selectResult' = val
  /\ UNCHANGED <<requests, reqCount, calls, mediaKind, options, val, unhandled, rendered>>
  /\ UNCHANGED joinroom

NextMedia ==
  \/ \E k \in Kinds : SelectMedia(k)
  \/ EnumerateRejected
  \/ \E n \in 0..MaxDevices : EnumerateResolved(n)
  \/ \E r \in requests : CreateLocalTracksResolved(r)
  \/ \E r \in requests : CreateLocalTracksRejected(r)
  \/ Shown
  \/ \E deviceId \in 1..MaxDevices : Change(deviceId)
  \/ ApplyClick
  \/ Hidden

\* The room controller and the device selection are separate modules with
\* no state in common: each is run with the other at rest.
Spec == Init /\ [][Next]_vars
SpecMobile == InitMobile /\ [][NextMobile]_vars
SpecMedia == Init /\ [][NextMedia]_vars

\* =====================================================================
\* Properties
\* =====================================================================
\* dominantSpeaker ?? localParticipant of a room that is not null.
AutoOf(room) ==
  IF room.dominantSpeaker # NULL THEN room.dominantSpeaker ELSE room.localParticipant

\* The containers in $participants, as <<identity, index>>.
ContainerIds == { c \in Identities \X (1..3) : c[2] <= Len(containers[c[1]]) }

\* A step that runs the 'participantDisconnected' listener for identity id.
IsParticipantDisconnected(id) ==
  participants[id] = "connected" /\ participants'[id] = "left"

\* A step that runs the .then callback of joinRoom.
IsEstablishment == sess' = sess + 1

\* C1: once a click has pinned A, dominantSpeakerChanged events leave A
\* active and pinned, and the active participant and the pin change only by
\* a click on a container or by participantDisconnected(A).
C1_PinChangesOnlyByClickOrDisconnect ==
  [][ (isActiveParticipantPinned /\ activeParticipant # NULL
        /\ (activeParticipant' # activeParticipant \/ ~isActiveParticipantPinned'))
      => \/ \E c \in ContainerIds : Click(c[1], c[2])
         \/ \E id \in Remotes : /\ activeParticipant = Participant(sess, id)
                                /\ IsParticipantDisconnected(id) ]_vars

\* The part of C1 about the 'dominantSpeakerChanged' listener alone: while a
\* participant is pinned the event changes neither the active participant
\* nor the pin, whatever room.dominantSpeaker is.
C1_DominantSpeakerLosesToPin ==
  [][ (isActiveParticipantPinned
        /\ \E d \in {NULL} \cup { Participant(sess, id) : id \in Remotes } :
             DominantSpeakerChangedEvent(d))
      => (activeParticipant' = activeParticipant /\ isActiveParticipantPinned') ]_vars

\* ---------------------------------------------------------------------
\* The selector of the design, section 4.3, on the pair (active, pinned):
\* Unset is (NULL, FALSE), AutoActive(P) is (P, FALSE), PinnedActive(P) is
\* (P, TRUE).  `auto` stands for dominantSpeaker ?? localParticipant.
Unset == [active |-> NULL, pinned |-> FALSE]
Selector == [active |-> activeParticipant, pinned |-> isActiveParticipantPinned]
SelectorNext == [active |-> activeParticipant', pinned |-> isActiveParticipantPinned']

MachineResolveAutomatic(m, auto) ==
  IF m.pinned THEN m ELSE [active |-> auto, pinned |-> FALSE]

MachineTogglePin(m, p, auto) ==
  IF m.pinned /\ m.active = p
    THEN MachineResolveAutomatic([m EXCEPT !.pinned = FALSE], auto)
    ELSE [active |-> p, pinned |-> TRUE]

MachineOnParticipantDisconnected(m, p, auto) ==
  IF m.pinned /\ m.active = p
    THEN MachineResolveAutomatic([m EXCEPT !.pinned = FALSE], auto)
    ELSE m

\* C2: within a session every event moves (activeParticipant,
\* isActiveParticipantPinned) as the selector of the design moves: session
\* establishment is resolveAutomatic from Unset, dominantSpeakerChanged is
\* resolveAutomatic, a click is togglePin and participantDisconnected is
\* onParticipantDisconnected.  The pairs agree after every sequence of events
\* exactly when they agree step by step.
C2_SelectorFollowsMachine ==
  [][ /\ IsEstablishment
        => SelectorNext = MachineResolveAutomatic(Unset, AutoOf(RoomOf(sess', dominantSpeaker')))
      /\ \A d \in {NULL} \cup { Participant(sess, id) : id \in Remotes } :
           DominantSpeakerChangedEvent(d)
             => SelectorNext = MachineResolveAutomatic(Selector, AutoOf(RoomOf(sess, d)))
      /\ \A c \in ContainerIds :
           (roomState = "connected" /\ windowRoom = sess /\ Click(c[1], c[2]))
             => SelectorNext = MachineTogglePin(Selector, containers[c[1]][c[2]].participant,
                                                AutoOf(ThisRoom))
      /\ \A id \in Remotes :
           IsParticipantDisconnected(id)
             => SelectorNext = MachineOnParticipantDisconnected(Selector, Participant(sess, id),
                                                               AutoOf(ThisRoom)) ]_vars

\* The same for the events of the first room of the page, whose callback ran
\* to its end: there the pair starts as the design's Unset.
C2_FirstSessionFollowsMachine ==
  [][ (sess' = 1 /\ wired' = "full") =>
      /\ IsEstablishment
        => SelectorNext = MachineResolveAutomatic(Unset, AutoOf(RoomOf(sess', dominantSpeaker')))
      /\ \A d \in {NULL} \cup { Participant(sess, id) : id \in Remotes } :
           DominantSpeakerChangedEvent(d)
             => SelectorNext = MachineResolveAutomatic(Selector, AutoOf(RoomOf(sess, d)))
      /\ \A c \in ContainerIds :
           (roomState = "connected" /\ windowRoom = sess /\ Click(c[1], c[2]))
             => SelectorNext = MachineTogglePin(Selector, containers[c[1]][c[2]].participant,
                                                AutoOf(ThisRoom))
      /\ \A id \in Remotes :
           IsParticipantDisconnected(id)
             => SelectorNext = MachineOnParticipantDisconnected(Selector, Participant(sess, id),
                                                               AutoOf(ThisRoom)) ]_vars

\* ---------------------------------------------------------------------
\* C3 as stated: when the pinned participant R disconnects, the pin is
\* cleared and the local participant becomes the active participant.
C3_DisconnectFallsBackToLocal ==
  [][ \A id \in Remotes :
        (IsParticipantDisconnected(id) /\ isActiveParticipantPinned
           /\ activeParticipant = Participant(sess, id))
        => (~isActiveParticipantPinned'
              /\ activeParticipant' = Participant(sess, LocalId)) ]_vars

\* C3 as amended: when the pinned participant R disconnects, the pin is
\* cleared and the active participant becomes room.dominantSpeaker, or the
\* local participant when the room reports no dominant speaker.
C3_DisconnectResolvesAutomatically ==
  [][ \A id \in Remotes :
        (IsParticipantDisconnected(id) /\ isActiveParticipantPinned
           /\ activeParticipant = Participant(sess, id))
        => (~isActiveParticipantPinned'
              /\ activeParticipant' = AutoOf(ThisRoom)
              /\ (dominantSpeaker = NULL => activeParticipant' = Participant(sess, LocalId))) ]_vars

\* R1 is pinned and connected while the room reports another dominant
\* speaker: the 'participantDisconnected' listener is about to run for it.
C3_Witness ==
  /\ isActiveParticipantPinned
  /\ activeParticipant = Participant(sess, "R1")
  /\ dominantSpeaker = Participant(sess, "R2")
  /\ ENABLED ParticipantDisconnectedEvent("R1")

\* ---------------------------------------------------------------------
\* The page after two consecutive clicks on the container of participant p.
AfterTwoClicks(p) ==
  LET s1 == ClickHandler(Cur, p, WindowRoom)
  IN ClickHandler([s1 EXCEPT !.threw = FALSE], p, WindowRoom)

\* C4 as stated: two consecutive clicks on the container of a participant
\* that is not pinned leave the pin cleared and the active participant equal
\* to dominantSpeaker ?? localParticipant, the value before the first click.
C4_TwoClicksRestore ==
  \A c \in ContainerIds :
    LET p == containers[c[1]][c[2]].participant
        s2 == AfterTwoClicks(p)
    IN ~(isActiveParticipantPinned /\ activeParticipant = p)
       => /\ ~s2.isActiveParticipantPinned
          /\ ~WindowRoom.isNull
          /\ s2.activeParticipant = AutoOf(WindowRoom)
          /\ s2.activeParticipant = activeParticipant

\* C4 as amended: two consecutive clicks on the container of a participant
\* that is not pinned leave the pin cleared; while window.room is set the
\* active participant is then window.room's dominantSpeaker ??
\* localParticipant, whatever it was before the first click; when
\* window.room is null the second click throws and leaves the clicked
\* participant active.
C4_TwoClicksResolveAutomatically ==
  \A c \in ContainerIds :
    LET p == containers[c[1]][c[2]].participant
        s2 == AfterTwoClicks(p)
    IN ~(isActiveParticipantPinned /\ activeParticipant = p)
       => /\ ~s2.isActiveParticipantPinned
          /\ ~WindowRoom.isNull => s2.activeParticipant = AutoOf(WindowRoom)
          /\ WindowRoom.isNull => (s2.threw /\ s2.activeParticipant = p)

\* R1 has a container and is not the active participant: the local
\* participant is pinned while the room reports R1 as dominant speaker, so
\* two clicks on R1 end at R1, not at the value before the first click.
C4_Witness ==
  /\ roomState = "connected"
  /\ Len(containers["R1"]) > 0
  /\ isActiveParticipantPinned
  /\ activeParticipant = Participant(sess, LocalId)
  /\ dominantSpeaker = Participant(sess, "R1")
  /\ AfterTwoClicks(containers["R1"][1].participant).activeParticipant = Participant(sess, "R1")

\* ---------------------------------------------------------------------
\* A step that runs participantConnected, trackPublished or the 'subscribed'
\* listener for a remote participant.
IsRemoteArrival ==
  /\ ~IsEstablishment
  /\ \E id \in Remotes :
       \/ participants[id] = "absent" /\ participants'[id] = "connected"
       \/ \E pub \in PubsOf(id) : pubs[id][pub] # "subscribed" /\ pubs'[id][pub] = "subscribed"
       \/ \E pub \in PubsOf(id) : pubs[id][pub] = "none" /\ pubs'[id][pub] = "published"

\* C5: a session established with the local participant alone starts with
\* the local participant active and nothing pinned; a remote participant
\* joining and its tracks being subscribed change neither; and from there a
\* dominantSpeakerChanged(R) makes R active, unpinned.
C5_AloneStartsLocalUnpinned ==
  [][ /\ (IsEstablishment /\ \A id \in Remotes : participants'[id] = "absent")
        => (activeParticipant' = Participant(sess', LocalId) /\ ~isActiveParticipantPinned')
      /\ IsRemoteArrival
        => (activeParticipant' = activeParticipant
              /\ isActiveParticipantPinned' = isActiveParticipantPinned)
      /\ \A id \in Remotes :
           (activeParticipant = Participant(sess, LocalId) /\ ~isActiveParticipantPinned
              /\ wired = "full" /\ DominantSpeakerChangedEvent(Participant(sess, id)))
           => (activeParticipant' = Participant(sess, id) /\ ~isActiveParticipantPinned') ]_vars

\* The scenario of C5 in the first room of the page.
C5_FirstSessionScenario ==
  [][ sess' = 1 =>
      /\ (IsEstablishment /\ \A id \in Remotes : participants'[id] = "absent")
        => (activeParticipant' = Participant(sess', LocalId) /\ ~isActiveParticipantPinned')
      /\ IsRemoteArrival
        => (activeParticipant' = activeParticipant
              /\ isActiveParticipantPinned' = isActiveParticipantPinned)
      /\ \A id \in Remotes :
           (activeParticipant = Participant(sess, LocalId) /\ ~isActiveParticipantPinned
              /\ wired = "full" /\ DominantSpeakerChangedEvent(Participant(sess, id)))
           => (activeParticipant' = Participant(sess, id) /\ ~isActiveParticipantPinned') ]_vars

\* ---------------------------------------------------------------------
\* C6: no track is attached while it is already attached: a track never has
\* more than one media element, and attachTrack has been called for it at
\* most once more than detachTrack.
C6_NeverAttachedTwice ==
  \A t \in RoomTracks : attachments[t] <= 1 /\ balance[t] \in {0, 1}

\* Every track of the second room is attached at once, each exactly once,
\* and both video tracks of R1 have their container.
C6_Witness ==
  /\ sess = 2
  /\ \A t \in RoomTracks : attachments[t] = 1
  /\ Len(containers["R1"]) = 2

\* ---------------------------------------------------------------------
\* C7: once the room has ended, every track attached during the session has
\* been detached as often as it was attached, and no container remains.
C7_NothingLeftAttached ==
  roomState = "disconnected"
    => /\ \A t \in RoomTracks : balance[t] = 0 /\ attachments[t] = 0
       /\ \A id \in Identities : containers[id] = <<>>

\* ---------------------------------------------------------------------
\* A step that runs one of the disconnect triggers.
IsDisconnectTrigger ==
  \/ LeaveClick
  \/ BeforeUnload
  \/ PageHide
  \/ DisconnectedEvent

\* The room ends in this step.
IsSessionEnd ==
  roomState \in {"connected", "disconnecting"} /\ roomState' = "disconnected"

\* C8: whatever disconnect triggers occurred in a session, when the room
\* ends the 'disconnected' listener has run exactly once: the local preview
\* is detached, the active view is cleared and window.room is null; and no
\* trigger raises an error or runs the teardown a second time.
C8_TeardownExactlyOnce ==
  [][ /\ IsSessionEnd
        => /\ teardowns' = 1
           /\ attachments'[<<LocalId, "v">>] = 0
           /\ activeVideoSrc' = NULL
           /\ windowRoom' = 0
      /\ IsDisconnectTrigger => (~threw' /\ teardowns' <= 1) ]_vars

\* The same in rooms whose listeners were all registered.
C8_FullyWiredTeardownOnce ==
  [][ /\ (IsSessionEnd /\ wired = "full")
        => /\ teardowns' = 1
           /\ attachments'[<<LocalId, "v">>] = 0
           /\ activeVideoSrc' = NULL
           /\ windowRoom' = 0
      /\ IsDisconnectTrigger => (~threw' /\ teardowns' <= 1) ]_vars

\* ---------------------------------------------------------------------
\* C9: the promise joinRoom returned is pending as long as the room is
\* connected, is resolved only once the 'disconnected' listener has run, and
\* is resolved once the room has ended.
C9_PendingWhileLive ==
  /\ roomState \in {"connected", "disconnecting"} => promise = "pending"
  /\ promise = "resolved" => (roomState = "disconnected" /\ teardowns = 1)
  /\ roomState = "disconnected" => promise = "resolved"

\* The same promise property in rooms whose listeners were all registered.
C9_FullyWiredPendingWhileLive ==
  wired = "full" =>
    /\ roomState \in {"connected", "disconnecting"} => promise = "pending"
    /\ promise = "resolved" => (roomState = "disconnected" /\ teardowns = 1)
    /\ roomState = "disconnected" => promise = "resolved"

\* ---------------------------------------------------------------------
\* C10: when connect rejects, the promise joinRoom returned rejects and
\* nothing else changes: window.room, the tracks, the containers, the
\* listeners and the selector keep their values.
C10_RejectionChangesNothing ==
  [][ (roomState = "connecting" /\ roomState' = "failed")
      => /\ promise' = "rejected"
         /\ UNCHANGED <<activeParticipant, isActiveParticipantPinned, windowRoom, containers,
                        activeVideoSrc, attachments, balance, listeners, disabledLocal,
                        wired, sess>> ]_vars

\* A connect was rejected after an earlier room had pinned a participant and
\* ended: the selector still holds that room's values.
C10_Witness ==
  /\ roomState = "failed"
  /\ promise = "rejected"
  /\ sess = 1
  /\ isActiveParticipantPinned
  /\ activeParticipant = Participant(1, "R1")
  /\ windowRoom = 0

\* ---------------------------------------------------------------------
\* A step in which a createLocalTracks call of applyInputDevice rejects.
IsCaptureFailure ==
  \E r \in requests : CreateLocalTracksRejected(r)

\* The request that fails in this step was made for the default device.
IsDefaultCaptureFailure ==
  \E r \in requests : r.origin = "default" /\ CreateLocalTracksRejected(r)

\* C11: when createLocalTracks fails in applyInputDevice, for the default
\* device or after a change of selection, the promise selectMedia returned
\* rejects, no rejection is left without a holder, and localTracks and the
\* tracks created before are as they were: none stopped, none replaced.
C11_CaptureFailureSurfaced ==
  [][ IsCaptureFailure
      => /\ selectPromise' = "rejected"
         /\ unhandled' = unhandled
         /\ localTracks' = localTracks
         /\ mediaTracks' = mediaTracks ]_vars

\* The part of C11 the code keeps: a failure changes neither localTracks
\* nor any track, and the failure for the default device rejects the
\* promise selectMedia returned.
C11_FailureLeavesTracksUntouched ==
  [][ /\ IsCaptureFailure => (localTracks' = localTracks /\ mediaTracks' = mediaTracks)
      /\ IsDefaultCaptureFailure => selectPromise' = "rejected" ]_vars

\* ---------------------------------------------------------------------
\* The LocalTracks created for the latest selectMedia call.
TracksOfCall ==
  { t \in 1..Len(mediaTracks) : mediaTracks[t].call = calls }

\* C12: once the modal is hidden and selectMedia's promise resolved, every
\* LocalTrack created for that call is stopped and localTracks[kind] is
\* null, also when a createLocalTracks call resolves after the modal was
\* hidden.
C12_NoPreviewAfterClose ==
  (modal = "hidden" /\ selectPromise = "resolved")
    => /\ localTracks[mediaKind] = 0
       /\ \A t \in TracksOfCall : mediaTracks[t].stopped

\* The same at the moment onHide has run: the tracks created so far are
\* stopped and the entry is null.
C12_StoppedWhenHidden ==
  [][ Hidden => /\ localTracks'[mediaKind] = 0
                /\ \A t \in TracksOfCall : mediaTracks'[t].stopped ]_vars

\* ---------------------------------------------------------------------
\* The 'disconnected' listener of the latest room has run.
TornDown == roomState = "disconnected" /\ teardowns = 1

\* A step for an event of the page: a click on a container or on "Leave
\* Room", 'beforeunload', 'pagehide' or 'visibilitychange'.
IsPageEvent ==
  \/ \E c \in ContainerIds : Click(c[1], c[2])
  \/ LeaveClick
  \/ BeforeUnload
  \/ PageHide
  \/ \E v \in {"hidden", "visible"} : VisibilityChange(v)

\* C13: after the teardown of a session none of its listeners is registered
\* any more, and no later event of the page changes the active participant,
\* the pin, the active view, a container or a track, or raises an error.
C13_NoListenerAfterTeardown ==
  [][ /\ TornDown'
        => /\ leaveHandlers' = {}
           /\ unloadListeners' = {}
           /\ pagehideListeners' = {}
           /\ visibilityListeners' = {}
           /\ \A id \in Identities : containers'[id] = <<>>
      /\ (TornDown /\ IsPageEvent)
        => /\ UNCHANGED <<activeParticipant, isActiveParticipantPinned, activeVideoSrc,
                          containers, attachments, disabledLocal>>
           /\ ~threw' ]_vars

\* ---------------------------------------------------------------------
\* C14: every room joinRoom establishes starts with nothing pinned and with
\* the active participant resolved from that room, dominantSpeaker ??
\* localParticipant, whatever the selector held when the previous room
\* ended; and while nothing is pinned a dominantSpeakerChanged event of the
\* room sets the active participant from it.
C14_SelectorStartsAfresh ==
  [][ /\ IsEstablishment
        => /\ ~isActiveParticipantPinned'
           /\ activeParticipant' = AutoOf(RoomOf(sess', dominantSpeaker'))
      /\ \A d \in {NULL} \cup { Participant(sess, id) : id \in Remotes } :
           (wired = "full" /\ ~isActiveParticipantPinned /\ DominantSpeakerChangedEvent(d))
           => activeParticipant' = AutoOf(RoomOf(sess, d)) ]_vars

\* The same for the first room of the page.
C14_FirstRoomStartsAfresh ==
  [][ sess' = 1 =>
      /\ IsEstablishment
        => /\ ~isActiveParticipantPinned'
           /\ activeParticipant' = AutoOf(RoomOf(sess', dominantSpeaker'))
      /\ \A d \in {NULL} \cup { Participant(sess, id) : id \in Remotes } :
           (wired = "full" /\ ~isActiveParticipantPinned /\ DominantSpeakerChangedEvent(d))
           => activeParticipant' = AutoOf(RoomOf(sess, d)) ]_vars

\* ---------------------------------------------------------------------
\* Remote participant id leaves a room whose dominant speaker it is: the
\* values room.dominantSpeaker may move to.
RaceTargets(id) ==
  {NULL} \cup { Participant(sess, r) : r \in { x \in Remotes \ {id} : participants[x] = "connected" } }

\* The page after the 'participantDisconnected' listener for id, run while
\* room.dominantSpeaker is still id, and then the 'dominantSpeakerChanged'
\* listener with room.dominantSpeaker = d; threw tells whether either threw.
RaceDisconnectFirst(id, d) ==
  LET s1 == ParticipantDisconnectedHandler(Cur, Participant(sess, id), ThisRoom)
      s2 == DominantSpeakerChangedHandler([s1 EXCEPT !.threw = FALSE], RoomOf(sess, d))
  IN [s2 EXCEPT !.threw = s1.threw \/ s2.threw]

\* The page after the same two listeners in the other order.
RaceSpeakerFirst(id, d) ==
  LET s1 == DominantSpeakerChangedHandler(Cur, RoomOf(sess, d))
      s2 == ParticipantDisconnectedHandler([s1 EXCEPT !.threw = FALSE], Participant(sess, id),
                                           RoomOf(sess, d))
  IN [s2 EXCEPT !.threw = s1.threw \/ s2.threw]

\* Remote participant id is connected to a live room, all of whose listeners
\* are registered, and is its dominant speaker.
IsLeavingSpeaker(id) ==
  /\ roomState = "connected"
  /\ wired = "full"
  /\ participants[id] = "connected"
  /\ dominantSpeaker = Participant(sess, id)

\* C15: when the dominant speaker R leaves, 'participantDisconnected' and
\* the 'dominantSpeakerChanged' that moves room.dominantSpeaker away from R
\* may run in either order: neither order raises an error, both end in the
\* same state, the active participant is then not R, and it is pinned only
\* if a participant other than R was pinned.
C15_RaceOrdersAgree ==
  \A id \in Remotes : IsLeavingSpeaker(id) =>
    \A d \in RaceTargets(id) :
      LET a == RaceDisconnectFirst(id, d)
          b == RaceSpeakerFirst(id, d)
      IN /\ ~a.threw /\ ~b.threw
         /\ a = b
         /\ a.activeParticipant # Participant(sess, id)
         /\ a.isActiveParticipantPinned
              <=> (isActiveParticipantPinned /\ activeParticipant # Participant(sess, id))

\* The same without the part about errors: both orders end with the same
\* selector state, not on R, pinned only if another participant was pinned.
C15_RaceOrdersAgreeOnSelector ==
  \A id \in Remotes : IsLeavingSpeaker(id) =>
    \A d \in RaceTargets(id) :
      LET a == RaceDisconnectFirst(id, d)
          b == RaceSpeakerFirst(id, d)
      IN /\ a.activeParticipant = b.activeParticipant
         /\ a.isActiveParticipantPinned = b.isActiveParticipantPinned
         /\ a.activeParticipant # Participant(sess, id)
         /\ a.isActiveParticipantPinned
              <=> (isActiveParticipantPinned /\ activeParticipant # Participant(sess, id))

\* ---------------------------------------------------------------------
\* A step of a live room in which the selector picks the active
\* participant: the establishment of the room, a 'dominantSpeakerChanged'
\* while nothing is pinned, a click on a container, or the disconnect of
\* the pinned participant.
IsSelectorTransition ==
  \/ IsEstablishment
  \/ \E d \in {NULL} \cup { Participant(sess, id) : id \in Remotes } :
       ~isActiveParticipantPinned /\ wired = "full" /\ DominantSpeakerChangedEvent(d)
  \/ \E c \in ContainerIds :
       roomState = "connected" /\ windowRoom = sess /\ Click(c[1], c[2])
  \/ \E id \in Remotes :
       /\ isActiveParticipantPinned
       /\ activeParticipant = Participant(sess, id)
       /\ IsParticipantDisconnected(id)

\* The active participant after the step has a container with a <video>.
ActiveHasVideoNext ==
  Len(containers'[IdentityOf(activeParticipant')]) > 0

\* C16: every selector transition completes without error and leaves the
\* active view on the video of the new active participant, or cleared when
\* that participant has no container with a video.
C16_TransitionBindsActiveView ==
  [][ IsSelectorTransition
      => /\ ~threw'
         /\ activeVideoSrc' = IF ActiveHasVideoNext
                                THEN containers'[IdentityOf(activeParticipant')][1].track
                                ELSE NULL ]_vars

\* The part of C16 the code keeps: when the new active participant has a
\* container, the transition raises no error and the active view shows the
\* video of its first container.
C16_BindsWhenVideoExists ==
  [][ (IsSelectorTransition /\ ActiveHasVideoNext)
      => /\ ~threw'
         /\ activeVideoSrc' = containers'[IdentityOf(activeParticipant')][1].track ]_vars

\* ---------------------------------------------------------------------
\* The tracks of the latest room that have no media element attached: the
\* local video track after the teardown, and the track of a publication of
\* a connected remote participant that is not subscribed.
DetachedTracks ==
  { t \in RoomTracks :
      /\ sess > 0
      /\ attachments[t] = 0
      /\ t[1] \in Remotes => pubs[t[1]][t[2]] = "published" }

\* The page after detachTrack is called once more for the track t of the
\* latest room; the count of calls kept in balance is left out.
AfterDetachAgain(t) ==
  LET s1 == DetachTrack(Cur, Track(sess, t[1], t[2]), Participant(sess, t[1]))
  IN [s1 EXCEPT !.balance = balance]

\* C17: detachTrack on a track that is already detached raises no error
\* and changes nothing: selector, active view, containers and the elements
\* of every track are as before.
C17_DetachAgainChangesNothing ==
  \A t \in DetachedTracks : AfterDetachAgain(t) = Cur

\* The part of C17 the code keeps: detachTrack on a detached track raises
\* no error and leaves the selector state, the active view, the elements
\* of every track and the containers of the other identities unchanged; for
\* an audio track it changes nothing.
C17_DetachAgainKeepsOthers ==
  \A t \in DetachedTracks :
    LET s1 == AfterDetachAgain(t)
    IN /\ ~s1.threw
       /\ s1.activeParticipant = activeParticipant
       /\ s1.isActiveParticipantPinned = isActiveParticipantPinned
       /\ s1.activeVideoSrc = activeVideoSrc
       /\ s1.attachments = attachments
       /\ \A id \in Identities \ {t[1]} : s1.containers[id] = containers[id]
       /\ Kind(t[2]) = "audio" => s1 = Cur

\* ---------------------------------------------------------------------
\* C18: whenever isActiveParticipantPinned is true, activeParticipant is
\* not null and is the participant of the container clicked last, with no
\* unpin since.  Step by step: the flag is true after a step only if the
\* step was a click that made the clicked participant active, or the flag
\* was true before and the active participant did not change.
C18_PinnedIsLastClicked ==
  [][ isActiveParticipantPinned'
      => /\ activeParticipant' # NULL
         /\ \/ \E c \in ContainerIds :
                 Click(c[1], c[2]) /\ activeParticipant' = containers[c[1]][c[2]].participant
            \/ isActiveParticipantPinned /\ activeParticipant' = activeParticipant ]_vars

\* The same in the first room of the page.
C18_FirstRoomPinnedIsLastClicked ==
  [][ (sess' <= 1 /\ isActiveParticipantPinned')
      => /\ activeParticipant' # NULL
         /\ \/ \E c \in ContainerIds :
                 Click(c[1], c[2]) /\ activeParticipant' = containers[c[1]][c[2]].participant
            \/ isActiveParticipantPinned /\ activeParticipant' = activeParticipant ]_vars

\* The state 'pinned with no active participant' is unreachable.
C18_PinnedHasActive ==
  isActiveParticipantPinned => activeParticipant # NULL

\* ---------------------------------------------------------------------
\* The video tracks of identity id in the latest room that have a media
\* element attached.
AttachedVideoTracks(id) ==
  { Track(sess, id, pub) : pub \in { x \in PubsOf(id) : Kind(x) = "video" /\ attachments[<<id, x>>] > 0 } }

\* The tracks whose <video> the containers of identity id hold.
ContainerTracks(id) ==
  { containers[id][i].track : i \in 1..Len(containers[id]) }

\* C19: in a live room the containers of a participant are exactly those
\* of its attached video tracks, one container for each.
C19_ContainersMatchAttachedVideo ==
  roomState = "connected"
    => \A id \in Identities :
         /\ ContainerTracks(id) = AttachedVideoTracks(id)
         /\ Len(containers[id]) = Cardinality(AttachedVideoTracks(id))

\* The part of C19 the code keeps in the first room of the page: every
\* container holds the video of an attached track, and no track has two
\* containers.
C19_FirstRoomContainersAreAttached ==
  (roomState = "connected" /\ sess = 1)
    => \A id \in Identities :
         /\ ContainerTracks(id) \subseteq AttachedVideoTracks(id)
         /\ Len(containers[id]) = Cardinality(ContainerTracks(id))

\* ---------------------------------------------------------------------
\* The participants of the latest room: the local participant and the
\* remote participants that are connected.
RoomMembers ==
  {Participant(sess, LocalId)}
    \cup { Participant(sess, id) : id \in { r \in Remotes : participants[r] = "connected" } }

\* C20: in a live room, here one whose listeners were all registered, the
\* active participant is a member of the room, the local participant or a
\* connected remote participant, never one that participantDisconnected
\* has reported.
C20_ActiveIsRoomMember ==
  (roomState = "connected" /\ wired = "full") => activeParticipant \in RoomMembers

====
